---- MODULE Spec2Model ----
(***************************************************************************)
(* Watch-folder ingestion and scheduling of src/python/processors/         *)
(* watch_folder.py: WatchFolderHandler (event admission), ProcessingQueue  *)
(* (priority queue), WatchFolderProcessor (enqueue_file, process_file, the *)
(* worker loop, start/stop of the pool).                                   *)
(*                                                                         *)
(* Threads: the watchdog observer thread, which runs the handlers'         *)
(* on_created / on_modified; the main thread, which calls the processor's  *)
(* API (add_watch_folder, start_workers, stop_workers,                     *)
(* process_existing_files); and the worker threads of start_workers.       *)
(* Every access to shared state is one step.                               *)
(***************************************************************************)
EXTENDS Integers, Sequences, FiniteSets, TLC

\* ---------------------------------------------------------------- bounds
MaxQueueSize == 1      \* the model's config['max_queue_size']
MaxTaskId    == 2      \* tasks explored (cap on ProcessingQueue.task_id)
MaxEnq       == 3      \* enqueues of the sequential queue client
MaxHandlers  == 2      \* add_watch_folder calls explored
MaxStarts    == 2      \* start_workers calls explored
Horizon      == 61     \* seconds of clock explored after T0
T0           == 100    \* time.time() at construction (any value > Cooldown)

\* ------------------------------------------------------- program constants
max_workers == 2       \* default_config['max_workers']
Cooldown    == 60      \* on_modified: "60 second cooldown"

MaxTime        == T0 + Horizon
MaxThreads     == max_workers * MaxStarts

\* ------------------------------------------------------------------ files
\* Two audio files and one file whose suffix is not an audio suffix.
Paths   == {"in/a.wav", "in/sub/b.wav", "in/c.txt"}
Folders == {"in", "in/sub"}

Under(path, folder) ==
    \/ folder = "in"
    \/ folder = "in/sub" /\ path \in {"in/sub/b.wav", "in/sub/backups/original_b.wav",
                                      "in/sub/processed/processed_b.wav"}

suffix(path) == IF path = "in/c.txt" THEN ".txt" ELSE ".wav"

supported_exts == {".mp3", ".wav", ".flac", ".aiff", ".m4a", ".ogg"}

get_supported_formats ==
    {".mp3", ".wav", ".flac", ".aiff", ".aif", ".m4a", ".ogg", ".opus"}

\* process_file writes two files next to the file it processes: the backup
\* copy "backups/original_<name>" and the output "processed/processed_<stem>_
\* <timestamp><suffix>" (config defaults 'backup_folder', 'output_folder').
\* The files written for a file that was itself written are beyond the paths
\* explored ("").
backup_file(path) ==
    CASE path = "in/a.wav" -> "in/backups/original_a.wav"
      [] path = "in/sub/b.wav" -> "in/sub/backups/original_b.wav"
      [] OTHER -> ""

output_file(path) ==
    CASE path = "in/a.wav" -> "in/processed/processed_a.wav"
      [] path = "in/sub/b.wav" -> "in/sub/processed/processed_b.wav"
      [] OTHER -> ""

WrittenPaths == ({backup_file(p) : p \in Paths} \cup {output_file(p) : p \in Paths}) \ {""}
AllPaths     == Paths \cup WrittenPaths

Producers == {"observer", "main"}
Threads   == 1..MaxThreads

NoTask   == [file_path |-> "", priority |-> "", enqueued_time |-> 0, status |-> ""]
NoResult == [file_path |-> "", success |-> FALSE, errors |-> <<>>, output_path |-> FALSE]
NoCall   == [file_path |-> "", priority |-> ""]
NoEvent  == [kind |-> "", path |-> "", handler |-> 0, valid |-> FALSE]
NoReturn == [of |-> NoEvent, value |-> ""]
NoIter   == [pos |-> 0, size |-> -1]

VARIABLES
    max_queue_size, \* config['max_queue_size']
    queue,        \* ProcessingQueue.queue: entries (priority, task_id, item), in put order
    task_id,      \* ProcessingQueue.task_id
    lock,         \* ProcessingQueue.lock: "free" or the producer thread that holds it
    hs,           \* the WatchFolderHandler objects created so far, by creation index
    handlers,     \* WatchFolderProcessor.handlers: folder -> index in hs (0: no entry)
    scheduled,    \* handlers scheduled on the current observer
    watching,     \* the observer is started
    running,      \* WatchFolderProcessor.running
    workers,      \* number of threads in WatchFolderProcessor.workers
    wpc,          \* position of each worker thread
    wtask,        \* the task a worker holds
    wresult,      \* the result dict of the worker's process_file call
    wreg,         \* the counter value a worker has loaded for "+= 1"
    wmark,        \* the worker's iterator over self.handlers.values(): the
                  \* values visited and the size of the dict when it was made
    stats,        \* WatchFolderProcessor.stats
    ppc,          \* position of each producer thread
    pevt,         \* the event the observer thread is dispatching
    pcall,        \* arguments of the producer's enqueue_file call
    pret,         \* what the producer's last call came to
    scanleft,     \* process_existing_files: files still to enqueue
    now,          \* time.time()
    accepted,     \* history: the calls whose task entered the queue (item, priority
                  \* value, task_id of the entry), in order
    dequeued,     \* history: the items dequeue returned, in order
    runs,         \* history, per path: process_file calls for tasks of handler
                  \* events (execs), a process_file call for the path has
                  \* returned (ended), an event for it was delivered after that (late)
    lastDone,     \* history, per path: when process_file last returned for it
                  \* (at, -1 for never) and the handlers registered then (by)
    logged,       \* history: the result dicts passed to _log_result, in order
    stops,        \* history: what each stop_workers call returned, whether
                  \* every worker thread had ended by then, and the queue then
    refused,      \* history: the events whose enqueue_file call returned False
    fsevents      \* the files written by process_file under a watched folder
                  \* whose creation the observer has yet to report

progvars == <<max_queue_size, queue, task_id, lock, hs, handlers, scheduled, watching, running, workers,
              wpc, wtask, wresult, wreg, wmark, stats, ppc, pevt, pcall, pret, scanleft, now>>
vars == <<progvars, accepted, dequeued, runs, lastDone, logged, stops, refused, fsevents>>

qvars == <<queue, task_id, lock>>
hvars == <<hs, handlers, scheduled, watching>>
wvars == <<wpc, wtask, wresult, wreg, wmark>>
pvars == <<ppc, pevt, pcall, pret, scanleft>>

\* ------------------------------------------------------- ProcessingQueue
\* Mutant: the tuples ordered by task_id alone.
EntryLess_fifo(a, b) == a.task_id < b.task_id

\* Python's order on the (priority, task_id, item) tuples the queue holds.
EntryLess(a, b) ==
    \/ a.priority < b.priority
    \/ a.priority = b.priority /\ a.task_id < b.task_id

\* Mutant: the entry put first is taken.
MinIndex_first(q) == 1

\* queue.PriorityQueue.get_nowait takes the lowest entry.
MinIndex(q) ==
    CHOOSE i \in 1..Len(q) : \A j \in 1..Len(q) : ~EntryLess(q[j], q[i])

Remove(q, i) == SubSeq(q, 1, i - 1) \o SubSeq(q, i + 1, Len(q))

\* ProcessingQueue.enqueue, under self.lock: the new task_id and queue.
enqueue(q, tid, item, priority) ==
    [task_id |-> tid + 1,
     queue   |-> Append(q, [priority |-> priority, task_id |-> tid + 1, item |-> item])]

\* Mutant: the item is returned and left in the queue.
dequeue_peek(q) ==
    IF q = <<>>
    THEN [item |-> NoTask, queue |-> q]
    ELSE [item |-> q[MinIndex(q)].item, queue |-> q]

\* ProcessingQueue.dequeue: the item (NoTask for None) and the queue left.
dequeue(q) ==
    IF q = <<>>
    THEN [item |-> NoTask, queue |-> q]
    ELSE [item |-> q[MinIndex(q)].item, queue |-> Remove(q, MinIndex(q))]

size(q) == Len(q)

\* ---------------------------------------------------- WatchFolderHandler
NewHandler(folder) ==
    [folder |-> folder, processed_files |-> {}, last_processed |-> [p \in AllPaths |-> 0]]

\* Mutant: _should_process without the tests on the file.
should_process_unchecked(h, path, valid) == path \notin h.processed_files

\* _should_process; valid is what validate_audio_file returns for the file.
should_process(h, path, valid) ==
    /\ path \notin h.processed_files
    /\ suffix(path) \in supported_exts
    /\ valid

\* on_modified's test on last_processed.get(path, 0).
cooled_down(h, path, t) == t - h.last_processed[path] > Cooldown

mark_processed(h, path, t) ==
    [h EXCEPT !.processed_files = @ \cup {path},
              !.last_processed = [@ EXCEPT ![path] = t]]

\* on_created / on_modified up to the call of enqueue_file.
admits(kind, h, path, valid, t) ==
    IF kind = "created"
    THEN should_process(h, path, valid)
    ELSE should_process(h, path, valid) /\ cooled_down(h, path, t)

event_priority(kind) == IF kind = "created" THEN "high" ELSE "medium"

\* ------------------------------------------------- WatchFolderProcessor
lower(s) ==
    CASE s \in {"HIGH", "High"} -> "high"
      [] s \in {"MEDIUM", "Medium"} -> "medium"
      [] s \in {"LOW", "Low"} -> "low"
      [] OTHER -> s

\* Mutant: the name is looked up as given, without lower().
priority_value_exact(priority) ==
    CASE priority = "high" -> 0
      [] priority = "medium" -> 1
      [] priority = "low" -> 2
      [] OTHER -> 1

\* priority_map.get(priority.lower(), 1)
priority_value(priority) ==
    CASE lower(priority) = "high" -> 0
      [] lower(priority) = "medium" -> 1
      [] lower(priority) = "low" -> 2
      [] OTHER -> 1

\* Mutant: ">" for ">=".
queue_full_gt(q) == size(q) > max_queue_size

\* enqueue_file's "Check queue size limit".
queue_full(q) == size(q) >= max_queue_size

NewTask(path, priority, t) ==
    [file_path |-> path, priority |-> priority, enqueued_time |-> t, status |-> "queued"]

\* The handlers in self.handlers.values().
Registered == {handlers[f] : f \in Folders} \ {0}

\* process_file up to "result['success'] = True": the result dict when
\* validation fails, when a step raises, and when the output was saved.
process_result(task, outcome) ==
    [file_path   |-> task.file_path,
     success     |-> outcome = "ok",
     errors      |-> CASE outcome = "invalid" -> <<"Validation failed">>
                       [] outcome = "raise" -> <<"exception">>
                       [] OTHER -> <<>>,
     output_path |-> outcome = "ok"]

\* "for handler in self.handlers.values(): handler.mark_processed(file_path)"
mark_all(handlerSeq, registered, path, t) ==
    [i \in 1..Len(handlerSeq) |->
        IF i \in registered THEN mark_processed(handlerSeq[i], path, t)
        ELSE handlerSeq[i]]

\* find_audio_files: the audio files found under the folder, sorted.
SortedPaths(S) ==
    LET ord == <<"in/a.wav", "in/c.txt", "in/sub/b.wav">>
    IN  SelectSeq(ord, LAMBDA p : p \in S)

\* The processor constructed with a configuration whose max_queue_size is cap.
Construct(cap) ==
    /\ max_queue_size = cap
    /\ queue = <<>>
    /\ task_id = 0
    /\ lock = "free"
    /\ hs = <<>>
    /\ handlers = [f \in Folders |-> 0]
    /\ scheduled = {}
    /\ watching = FALSE
    /\ running = FALSE
    /\ workers = 0
    /\ wpc = [w \in Threads |-> "unborn"]
    /\ wtask = [w \in Threads |-> NoTask]
    /\ wresult = [w \in Threads |-> NoResult]
    /\ wreg = [w \in Threads |-> 0]
    /\ wmark = [w \in Threads |-> NoIter]
    /\ stats = [processed_files |-> 0, failed_files |-> 0]
    /\ ppc = [p \in Producers |-> "idle"]
    /\ pevt = NoEvent
    /\ pcall = [p \in Producers |-> NoCall]
    /\ pret = [p \in Producers |-> NoReturn]
    /\ scanleft = <<>>
    /\ now = T0
    /\ accepted = <<>>
    /\ dequeued = <<>>
    /\ runs = [p \in Paths |-> [execs |-> 0, ended |-> FALSE, late |-> FALSE]]
    /\ lastDone = [p \in Paths |-> [at |-> -1, by |-> {}]]
    /\ logged = <<>>
    /\ stops = {}
    /\ refused = {}
    /\ fsevents = {}

Init == Construct(MaxQueueSize)

\* ------------------------------------------------------------ main thread
\* add_watch_folder: a new handler replaces the folder's entry in
\* self.handlers and is scheduled on the observer.
AddWatchFolder(f) ==
    /\ ppc["main"] = "idle"
    /\ Len(hs) < MaxHandlers
    /\ hs' = Append(hs, NewHandler(f))
    /\ handlers' = [handlers EXCEPT ![f] = Len(hs) + 1]
    /\ scheduled' = scheduled \cup {Len(hs) + 1}
    /\ UNCHANGED <<watching, running, workers, stats, now, qvars, wvars, pvars>>

\* start_watching
StartWatching ==
    /\ ppc["main"] = "idle"
    /\ ~watching
    /\ watching' = TRUE
    /\ UNCHANGED <<hs, handlers, scheduled, running, workers, stats, now>>
    /\ UNCHANGED <<qvars, wvars, pvars>>

\* stop_watching: the observer is stopped and dropped, with its schedules.
StopWatching ==
    /\ ppc["main"] = "idle"
    /\ watching \/ scheduled # {}
    /\ watching' = FALSE
    /\ scheduled' = {}
    /\ UNCHANGED <<hs, handlers, running, workers, stats, now, qvars, wvars, pvars>>

\* start_workers
StartWorkers ==
    /\ ppc["main"] = "idle"
    /\ workers + max_workers <= MaxThreads
    /\ running' = TRUE
    /\ workers' = workers + max_workers
    /\ wpc' = [w \in Threads |->
                 IF w \in (workers + 1)..(workers + max_workers) THEN "loop" ELSE wpc[w]]
    /\ UNCHANGED <<wtask, wresult, wreg, wmark, stats, now, qvars, hvars, pvars>>

\* Positions of a worker thread that has not started or has ended.
Ended == {"unborn", "exited", "dead", "killed"}

\* Mutant: stop_workers empties the queue.
StopWorkers_clears ==
    /\ ppc["main"] = "idle"
    /\ workers > 0
    /\ running' = FALSE
    /\ queue' = <<>>
    /\ ppc' = [ppc EXCEPT !["main"] = "join"]
    /\ UNCHANGED <<workers, stats, now, pevt, pcall, pret, scanleft, task_id, lock, hvars, wvars>>

\* stop_workers: the flag, then the joins (each returns when its thread has
\* ended or after 5 s).
StopWorkers ==
    /\ ppc["main"] = "idle"
    /\ workers > 0
    /\ running' = FALSE
    /\ ppc' = [ppc EXCEPT !["main"] = "join"]
    /\ UNCHANGED <<workers, stats, now, pevt, pcall, pret, scanleft, qvars, hvars, wvars>>

\* The joins return when the thread has ended or after 5 s: an idle worker
\* (it sleeps 0.5 s at most) has seen the flag by then, one that executes a
\* task may not have. stop_workers has no return statement: the caller gets
\* None.
StopWorkersReturn ==
    /\ ppc["main"] = "join"
    /\ \A w \in 1..workers : wpc[w] \in Ended \/ wtask[w] # NoTask
    /\ ppc' = [ppc EXCEPT !["main"] = "idle"]
    /\ pret' = [pret EXCEPT !["main"] = [of |-> NoEvent, value |-> "None"]]
    /\ UNCHANGED <<running, workers, stats, now, pevt, pcall, scanleft>>
    /\ UNCHANGED <<qvars, hvars, wvars>>

\* main() returns after stop_watching and stop_workers: the interpreter
\* exits and the worker threads, which are daemon threads, end where they are.
MainExit ==
    /\ ppc["main"] = "idle"
    /\ ppc["observer"] = "idle"
    /\ workers > 0
    /\ ~running
    /\ ~watching
    /\ ppc' = [ppc EXCEPT !["main"] = "ended"]
    /\ wpc' = [w \in Threads |-> IF wpc[w] \in Ended THEN wpc[w] ELSE "killed"]
    /\ UNCHANGED <<running, workers, stats, now, wtask, wresult, wreg, wmark>>
    /\ UNCHANGED <<pevt, pcall, pret, scanleft, qvars, hvars>>

\* process_existing_files(folder): the files to enqueue at 'low'.
ProcessExistingFiles(f, found) ==
    /\ ppc["main"] = "idle"
    /\ found # {}
    /\ \A p \in found : Under(p, f) /\ suffix(p) \in get_supported_formats
    /\ scanleft' = SortedPaths(found)
    /\ ppc' = [ppc EXCEPT !["main"] = "scan"]
    /\ UNCHANGED <<running, workers, stats, now, pevt, pcall, pret, qvars, hvars, wvars>>

\* Mutant: the scan enqueues at 'medium'.
ScanNext_medium ==
    /\ ppc["main"] = "scan"
    /\ IF scanleft = <<>>
       THEN /\ ppc' = [ppc EXCEPT !["main"] = "idle"]
            /\ UNCHANGED <<pcall, scanleft>>
       ELSE /\ ppc' = [ppc EXCEPT !["main"] = "enqueue_file"]
            /\ pcall' = [pcall EXCEPT !["main"] =
                            [file_path |-> Head(scanleft), priority |-> "medium"]]
            /\ scanleft' = Tail(scanleft)
    /\ pret' = [pret EXCEPT !["main"] = NoReturn]
    /\ UNCHANGED <<running, workers, stats, now, pevt, qvars, hvars, wvars>>

\* "for file_path in audio_files: self.enqueue_file(file_path, priority='low')"
ScanNext ==
    /\ ppc["main"] = "scan"
    /\ IF scanleft = <<>>
       THEN /\ ppc' = [ppc EXCEPT !["main"] = "idle"]
            /\ UNCHANGED <<pcall, scanleft>>
       ELSE /\ ppc' = [ppc EXCEPT !["main"] = "enqueue_file"]
            /\ pcall' = [pcall EXCEPT !["main"] =
                            [file_path |-> Head(scanleft), priority |-> "low"]]
            /\ scanleft' = Tail(scanleft)
    /\ pret' = [pret EXCEPT !["main"] = NoReturn]
    /\ UNCHANGED <<running, workers, stats, now, pevt, qvars, hvars, wvars>>

\* Where a producer is when its enqueue_file call has returned.
AfterCall(p) == IF p = "main" THEN "scan" ELSE "idle"

\* ------------------------------------------------------ observer thread
\* The observer dispatches an event to a scheduled handler of a folder the
\* path lies under.
DeliverEvent(kind, h, path, valid) ==
    /\ watching
    /\ ppc["observer"] = "idle"
    /\ h \in scheduled
    /\ Under(path, hs[h].folder)
    /\ valid => suffix(path) \in get_supported_formats
    /\ pevt' = [kind |-> kind, path |-> path, handler |-> h, valid |-> valid]
    /\ ppc' = [ppc EXCEPT !["observer"] = "handler"]
    /\ pret' = [pret EXCEPT !["observer"] = NoReturn]
    /\ UNCHANGED <<running, workers, stats, now, pcall, scanleft, qvars, hvars, wvars>>

\* Mutant: the handler marks the path when it admits the event.
HandleEvent_marks ==
    /\ ppc["observer"] = "handler"
    /\ IF admits(pevt.kind, hs[pevt.handler], pevt.path, pevt.valid, now)
       THEN /\ ppc' = [ppc EXCEPT !["observer"] = "enqueue_file"]
            /\ pcall' = [pcall EXCEPT !["observer"] =
                            [file_path |-> pevt.path, priority |-> event_priority(pevt.kind)]]
            /\ pret' = [pret EXCEPT !["observer"] = [of |-> pevt, value |-> ""]]
            /\ hs' = [hs EXCEPT ![pevt.handler] = mark_processed(@, pevt.path, now)]
       ELSE /\ ppc' = [ppc EXCEPT !["observer"] = "idle"]
            /\ pret' = [pret EXCEPT !["observer"] = [of |-> pevt, value |-> "skipped"]]
            /\ UNCHANGED <<pcall, hs>>
    /\ pevt' = NoEvent
    /\ UNCHANGED <<running, workers, stats, now, scanleft, qvars, wvars>>
    /\ UNCHANGED <<handlers, scheduled, watching>>

\* on_created / on_modified
HandleEvent ==
    /\ ppc["observer"] = "handler"
    /\ IF admits(pevt.kind, hs[pevt.handler], pevt.path, pevt.valid, now)
       THEN /\ ppc' = [ppc EXCEPT !["observer"] = "enqueue_file"]
            /\ pcall' = [pcall EXCEPT !["observer"] =
                            [file_path |-> pevt.path, priority |-> event_priority(pevt.kind)]]
            /\ pret' = [pret EXCEPT !["observer"] = [of |-> pevt, value |-> ""]]
       ELSE /\ ppc' = [ppc EXCEPT !["observer"] = "idle"]
            /\ pret' = [pret EXCEPT !["observer"] = [of |-> pevt, value |-> "skipped"]]
            /\ UNCHANGED pcall
    /\ pevt' = NoEvent
    /\ UNCHANGED <<running, workers, stats, now, scanleft, qvars, hvars, wvars>>

\* ---------------------------------------------------------- enqueue_file
\* The size check of enqueue_file: "return False" when the queue is full.
EnqueueFileCheck(p) ==
    /\ ppc[p] = "enqueue_file"
    /\ IF queue_full(queue)
       THEN /\ ppc' = [ppc EXCEPT ![p] = AfterCall(p)]
            /\ pcall' = [pcall EXCEPT ![p] = NoCall]
            /\ pret' = [pret EXCEPT ![p].value = "False"]
       ELSE /\ ppc' = [ppc EXCEPT ![p] = "put"]
            /\ UNCHANGED <<pcall, pret>>
    /\ UNCHANGED <<running, workers, stats, now, pevt, scanleft, qvars, hvars, wvars>>

\* "self.queue.enqueue({...}, priority_value)", "return True"
EnqueueFilePut(p) ==
    /\ ppc[p] = "put"
    /\ task_id < MaxTaskId
    /\ LET r == enqueue(queue, task_id,
                        NewTask(pcall[p].file_path, pcall[p].priority, now),
                        priority_value(pcall[p].priority))
       IN  /\ queue' = r.queue
           /\ task_id' = r.task_id
    /\ ppc' = [ppc EXCEPT ![p] = AfterCall(p)]
    /\ pcall' = [pcall EXCEPT ![p] = NoCall]
    /\ pret' = [pret EXCEPT ![p].value = "True"]
    /\ UNCHANGED <<running, workers, stats, now, lock, pevt, scanleft, hvars, wvars>>

\* ProcessingQueue.enqueue, step by step. "with self.lock:" waits until the
\* lock is free and takes it.
\* Mutant: enqueue without the lock.
EnqueueAcquire_nolock(p) ==
    /\ ppc[p] = "put"
    /\ lock' = lock
    /\ ppc' = [ppc EXCEPT ![p] = "incr"]
    /\ UNCHANGED <<queue, task_id, running, workers, stats, now>>
    /\ UNCHANGED <<pevt, pcall, pret, scanleft, hvars, wvars>>

EnqueueAcquire(p) ==
    /\ ppc[p] = "put"
    /\ lock = "free"
    /\ lock' = p
    /\ ppc' = [ppc EXCEPT ![p] = "incr"]
    /\ UNCHANGED <<queue, task_id, running, workers, stats, now>>
    /\ UNCHANGED <<pevt, pcall, pret, scanleft, hvars, wvars>>

\* "self.task_id += 1"
EnqueueIncrement(p) ==
    /\ ppc[p] = "incr"
    /\ task_id' = task_id + 1
    /\ ppc' = [ppc EXCEPT ![p] = "locked_put"]
    /\ UNCHANGED <<queue, lock, running, workers, stats, now>>
    /\ UNCHANGED <<pevt, pcall, pret, scanleft, hvars, wvars>>

\* Mutant: the lock is not released.
EnqueueLockedPut_held(p) ==
    /\ ppc[p] = "locked_put"
    /\ queue' = Append(queue, [priority |-> priority_value(pcall[p].priority),
                               task_id  |-> task_id,
                               item     |-> NewTask(pcall[p].file_path, pcall[p].priority, now)])
    /\ lock' = lock
    /\ ppc' = [ppc EXCEPT ![p] = AfterCall(p)]
    /\ pcall' = [pcall EXCEPT ![p] = NoCall]
    /\ pret' = [pret EXCEPT ![p].value = "True"]
    /\ UNCHANGED <<task_id, running, workers, stats, now, pevt, scanleft, hvars, wvars>>

\* "self.queue.put((priority, self.task_id, item))" (put on the unbounded
\* queue.PriorityQueue does not wait), the end of the with block, and
\* enqueue_file's "return True".
EnqueueLockedPut(p) ==
    /\ ppc[p] = "locked_put"
    /\ queue' = Append(queue, [priority |-> priority_value(pcall[p].priority),
                               task_id  |-> task_id,
                               item     |-> NewTask(pcall[p].file_path, pcall[p].priority, now)])
    /\ lock' = "free"
    /\ ppc' = [ppc EXCEPT ![p] = AfterCall(p)]
    /\ pcall' = [pcall EXCEPT ![p] = NoCall]
    /\ pret' = [pret EXCEPT ![p].value = "True"]
    /\ UNCHANGED <<task_id, running, workers, stats, now, pevt, scanleft, hvars, wvars>>

\* ------------------------------------------------------------ _worker_loop
\* Mutant: "while True:".
WorkerLoop_deaf(w) ==
    /\ wpc[w] = "loop"
    /\ wpc' = [wpc EXCEPT ![w] = "dequeue"]
    /\ UNCHANGED <<running, workers, stats, now, wtask, wresult, wreg, wmark>>
    /\ UNCHANGED <<qvars, hvars, pvars>>

\* "while self.running:"
WorkerLoop(w) ==
    /\ wpc[w] = "loop"
    /\ wpc' = [wpc EXCEPT ![w] = IF running THEN "dequeue" ELSE "exited"]
    /\ UNCHANGED <<running, workers, stats, now, wtask, wresult, wreg, wmark>>
    /\ UNCHANGED <<qvars, hvars, pvars>>

\* "task = self.queue.dequeue()"; on None the worker sleeps and loops.
WorkerDequeue(w) ==
    /\ wpc[w] = "dequeue"
    /\ LET r == dequeue(queue)
       IN  /\ queue' = r.queue
           /\ IF r.item = NoTask
              THEN /\ wpc' = [wpc EXCEPT ![w] = "loop"]
                   /\ UNCHANGED wtask
              ELSE /\ wpc' = [wpc EXCEPT ![w] = "process"]
                   /\ wtask' = [wtask EXCEPT ![w] = r.item]
    /\ UNCHANGED <<running, workers, stats, now, wresult, wreg, wmark, task_id, lock, hvars, pvars>>

Outcomes == {"invalid", "raise", "ok"}

\* Mutant: no "except Exception": what a step raises ends the thread.
WorkerProcess_uncaught(w, outcome) ==
    /\ wpc[w] = "process"
    /\ wresult' = [wresult EXCEPT ![w] = process_result(wtask[w], outcome)]
    /\ wpc' = [wpc EXCEPT ![w] = CASE outcome = "ok" -> "mark"
                                   [] outcome = "raise" -> "dead"
                                   [] OTHER -> "stats"]
    /\ UNCHANGED <<running, workers, stats, now, wtask, wreg, wmark, qvars, hvars, pvars>>

\* "result = self.process_file(task)" up to the marking of the handlers
WorkerProcess(w, outcome) ==
    /\ wpc[w] = "process"
    /\ wresult' = [wresult EXCEPT ![w] = process_result(wtask[w], outcome)]
    /\ wpc' = [wpc EXCEPT ![w] = IF outcome = "ok" THEN "mark" ELSE "stats"]
    /\ UNCHANGED <<running, workers, stats, now, wtask, wreg, wmark, qvars, hvars, pvars>>

\* "Mark as processed in handler", and process_file returns
WorkerMark(w) ==
    /\ wpc[w] = "mark"
    /\ hs' = mark_all(hs, Registered, wtask[w].file_path, now)
    /\ wpc' = [wpc EXCEPT ![w] = "stats"]
    /\ UNCHANGED <<running, workers, stats, now, wtask, wresult, wreg, wmark>>
    /\ UNCHANGED <<handlers, scheduled, watching, qvars, pvars>>

\* The marking loop of process_file, step by step. self.handlers.values()
\* is iterated in the order in which the folders were first added.
FirstOf(f) == CHOOSE i \in 1..Len(hs) : hs[i].folder = f /\ \A j \in 1..(i - 1) : hs[j].folder # f

RECURSIVE InOrder(_)
InOrder(S) ==
    IF S = {} THEN <<>>
    ELSE LET f == CHOOSE x \in S : \A y \in S : FirstOf(x) <= FirstOf(y)
         IN  <<handlers[f]>> \o InOrder(S \ {f})

MarkOrder == InOrder({f \in Folders : handlers[f] # 0})

\* "for handler in self.handlers.values():" makes the iterator, which keeps
\* the size of the dict.
WorkerMarkIter(w) ==
    /\ wpc[w] = "mark"
    /\ wmark[w] = NoIter
    /\ wmark' = [wmark EXCEPT ![w] = [pos |-> 0, size |-> Len(MarkOrder)]]
    /\ UNCHANGED <<running, workers, stats, now, wpc, wtask, wresult, wreg>>
    /\ UNCHANGED <<qvars, hvars, pvars>>

\* The iterator's next value and "handler.mark_processed(file_path)", which
\* reads time.time() for this handler; at the end of the dict process_file
\* returns (auto_delete_original is False).
WorkerMarkNext(w) ==
    /\ wpc[w] = "mark"
    /\ wmark[w] # NoIter
    /\ Len(MarkOrder) = wmark[w].size
    /\ IF wmark[w].pos < wmark[w].size
       THEN /\ hs' = [hs EXCEPT ![MarkOrder[wmark[w].pos + 1]] =
                         mark_processed(@, wtask[w].file_path, now)]
            /\ wmark' = [wmark EXCEPT ![w].pos = @ + 1]
            /\ UNCHANGED wpc
       ELSE /\ wmark' = [wmark EXCEPT ![w] = NoIter]
            /\ wpc' = [wpc EXCEPT ![w] = "stats"]
            /\ UNCHANGED hs
    /\ UNCHANGED <<running, workers, stats, now, wtask, wresult, wreg>>
    /\ UNCHANGED <<handlers, scheduled, watching, qvars, pvars>>

\* The iterator's next raises RuntimeError ("dictionary changed size during
\* iteration") when add_watch_folder has added a folder since the iterator
\* was made; "except Exception" appends the error to result['errors'] and
\* process_file returns the result.
WorkerMarkRaise(w) ==
    /\ wpc[w] = "mark"
    /\ wmark[w] # NoIter
    /\ Len(MarkOrder) # wmark[w].size
    /\ wresult' = [wresult EXCEPT ![w].errors = <<"exception">>]
    /\ wmark' = [wmark EXCEPT ![w] = NoIter]
    /\ wpc' = [wpc EXCEPT ![w] = "stats"]
    /\ UNCHANGED <<running, workers, stats, now, wtask, wreg, qvars, hvars, pvars>>

\* "with threading.Lock(): self.stats['processed_files'] += 1": the lock is
\* a new one each time, so the load and the store are separate steps.
WorkerStatsLoad(w) ==
    /\ wpc[w] = "stats"
    /\ wreg' = [wreg EXCEPT ![w] = stats.processed_files]
    /\ wpc' = [wpc EXCEPT ![w] = "stats_store"]
    /\ UNCHANGED <<wmark, running, workers, stats, now, wtask, wresult, qvars, hvars, pvars>>

WorkerStatsStore(w) ==
    /\ wpc[w] = "stats_store"
    /\ stats' = [stats EXCEPT !.processed_files = wreg[w] + 1]
    /\ wpc' = [wpc EXCEPT ![w] = IF wresult[w].success THEN "log" ELSE "failed"]
    /\ UNCHANGED <<running, workers, now, wtask, wresult, wreg, wmark, qvars, hvars, pvars>>

\* "if not result['success']: self.stats['failed_files'] += 1"
WorkerFailedLoad(w) ==
    /\ wpc[w] = "failed"
    /\ wreg' = [wreg EXCEPT ![w] = stats.failed_files]
    /\ wpc' = [wpc EXCEPT ![w] = "failed_store"]
    /\ UNCHANGED <<wmark, running, workers, stats, now, wtask, wresult, qvars, hvars, pvars>>

WorkerFailedStore(w) ==
    /\ wpc[w] = "failed_store"
    /\ stats' = [stats EXCEPT !.failed_files = wreg[w] + 1]
    /\ wpc' = [wpc EXCEPT ![w] = "log"]
    /\ UNCHANGED <<running, workers, now, wtask, wresult, wreg, wmark, qvars, hvars, pvars>>

\* Mutant: a failed task is put back into the queue.
WorkerLog_retry(w, dir_ok) ==
    /\ wpc[w] = "log"
    /\ wpc' = [wpc EXCEPT ![w] = IF dir_ok THEN "loop" ELSE "dead"]
    /\ wtask' = [wtask EXCEPT ![w] = NoTask]
    /\ wresult' = [wresult EXCEPT ![w] = NoResult]
    /\ wreg' = [wreg EXCEPT ![w] = 0]
    /\ queue' = IF wresult[w].success THEN queue
                ELSE Append(queue, [priority |-> priority_value(wtask[w].priority),
                                    task_id |-> task_id, item |-> wtask[w]])
    /\ UNCHANGED <<wmark, running, workers, stats, now, task_id, lock, hvars, pvars>>

\* _log_result: ensure_directory(log_file.parent) is outside the try, so
\* its exception ends the thread; a failure to open or write is caught.
WorkerLog(w, dir_ok) ==
    /\ wpc[w] = "log"
    /\ wpc' = [wpc EXCEPT ![w] = IF dir_ok THEN "loop" ELSE "dead"]
    /\ wtask' = [wtask EXCEPT ![w] = NoTask]
    /\ wresult' = [wresult EXCEPT ![w] = NoResult]
    /\ wreg' = [wreg EXCEPT ![w] = 0]
    /\ UNCHANGED <<wmark, running, workers, stats, now, qvars, hvars, pvars>>

\* The statistics update and _log_result of one iteration, taken by the
\* worker without another thread's step in between.
WorkerRecord(w, dir_ok) ==
    /\ wpc[w] = "stats"
    /\ stats' = [processed_files |-> stats.processed_files + 1,
                 failed_files |-> stats.failed_files +
                                    (IF wresult[w].success THEN 0 ELSE 1)]
    /\ wpc' = [wpc EXCEPT ![w] = IF dir_ok THEN "loop" ELSE "dead"]
    /\ wtask' = [wtask EXCEPT ![w] = NoTask]
    /\ wresult' = [wresult EXCEPT ![w] = NoResult]
    /\ UNCHANGED <<running, workers, now, wreg, wmark, qvars, hvars, pvars>>

\* ------------------------------------------------------------------ clock
Tick(d) ==
    /\ now + d <= MaxTime
    /\ now' = now + d
    /\ UNCHANGED <<running, workers, stats, qvars, hvars, wvars, pvars>>

Kinds == {"created", "modified"}
Audio == {p \in Paths : suffix(p) \in get_supported_formats}

\* ---------------------------------------------------------------- history
\* The history variables are functions of the step taken.
PutBy(p)      == ppc[p] \in {"put", "locked_put"} /\ ppc'[p] = AfterCall(p)
DequeuedBy(w) == wpc[w] = "dequeue" /\ wpc'[w] = "process"
CalledBy(w)   == wpc[w] = "process" /\ wpc'[w] # "process"
ReturnedBy(w) == wpc[w] \in {"process", "mark"} /\ wpc'[w] = "stats"
Delivered     == ppc["observer"] = "idle" /\ ppc'["observer"] = "handler"
LogCalledBy(w) ==
    \/ wpc[w] # "log" /\ wpc'[w] = "log"
    \/ wpc[w] = "stats" /\ wpc'[w] \in {"loop", "dead"}
StopReturns   == ppc["main"] = "join" /\ ppc'["main"] = "idle"

ObserveAccepted ==
    accepted' =
        IF \E p \in Producers : PutBy(p)
        THEN LET p == CHOOSE x \in Producers : PutBy(x)
             IN  Append(accepted,
                    [item |-> NewTask(pcall[p].file_path, pcall[p].priority, now),
                     priority |-> priority_value(pcall[p].priority),
                     task_id |-> queue'[Len(queue')].task_id])
        ELSE accepted

ObserveDequeued ==
    dequeued' =
        IF \E w \in Threads : DequeuedBy(w)
        THEN Append(dequeued, wtask'[CHOOSE w \in Threads : DequeuedBy(w)])
        ELSE dequeued

ObserveRuns ==
    runs' = [p \in Paths |->
        [execs |-> runs[p].execs +
                     (IF \E w \in Threads : /\ CalledBy(w)
                                            /\ wtask[w].file_path = p
                                            /\ wtask[w].priority # "low"
                      THEN 1 ELSE 0),
         ended |-> runs[p].ended
                     \/ \E w \in Threads : ReturnedBy(w) /\ wtask[w].file_path = p,
         late  |-> runs[p].late \/ (Delivered /\ pevt'.path = p /\ runs[p].ended)]]

ObserveLastDone ==
    lastDone' = [p \in Paths |->
        IF \E w \in Threads : ReturnedBy(w) /\ wtask[w].file_path = p
        THEN [at |-> now, by |-> Registered]
        ELSE lastDone[p]]

ObserveLogged ==
    logged' =
        IF \E w \in Threads : LogCalledBy(w)
        THEN Append(logged, wresult[CHOOSE w \in Threads : LogCalledBy(w)])
        ELSE logged

ObserveStops ==
    stops' =
        IF StopReturns
        THEN stops \cup {[result  |-> pret'["main"].value,
                          drained |-> \A w \in 1..workers : wpc[w] \in Ended,
                          left    |-> queue]}
        ELSE stops

\* The observer's enqueue_file call returns False.
RefusedTo(p) == ppc[p] = "enqueue_file" /\ ppc'[p] = AfterCall(p)

ObserveRefused ==
    refused' =
        IF RefusedTo("observer")
        THEN refused \cup {pcall["observer"].file_path}
        ELSE refused

\* The files a process_file call that succeeds has written (shutil.copy2 of
\* the backup, sf.write of the output); the observer reports a file once.
WrittenBy(w) ==
    IF CalledBy(w) /\ wresult'[w].success
    THEN {backup_file(wtask[w].file_path), output_file(wtask[w].file_path)} \ {""}
    ELSE {}

ObserveFiles ==
    fsevents' = (fsevents \cup UNION {WrittenBy(w) : w \in Threads})
                   \ (IF Delivered THEN {pevt'.path} ELSE {})

\* -------------------------------------------------------- specifications
\* A step of the program with the history kept of it.
Whole(A) ==
    /\ A
    /\ UNCHANGED max_queue_size
    /\ ObserveAccepted /\ ObserveDequeued /\ ObserveRuns /\ ObserveLastDone
    /\ ObserveLogged /\ ObserveStops /\ ObserveRefused /\ ObserveFiles
WithRuns(A) ==
    /\ A
    /\ ObserveRuns
    /\ UNCHANGED <<max_queue_size, refused, fsevents, accepted, dequeued, lastDone, logged, stops>>
WithLog(A) ==
    /\ A
    /\ ObserveAccepted /\ ObserveDequeued
    /\ UNCHANGED <<max_queue_size, refused, fsevents, runs, lastDone, logged, stops>>
WithLastDone(A) ==
    /\ A
    /\ ObserveLastDone
    /\ UNCHANGED <<max_queue_size, refused, fsevents, accepted, dequeued, runs, logged, stops>>
WithOutcomes(A) ==
    /\ A
    /\ ObserveAccepted /\ ObserveDequeued /\ ObserveLogged
    /\ UNCHANGED <<max_queue_size, refused, fsevents, runs, lastDone, stops>>
WithStops(A) ==
    /\ A
    /\ ObserveStops
    /\ UNCHANGED <<max_queue_size, refused, fsevents, accepted, dequeued, runs, lastDone, logged>>

WithRefused(A) ==
    /\ A
    /\ ObserveRefused
    /\ UNCHANGED <<max_queue_size, fsevents, accepted, dequeued, runs, lastDone, logged, stops>>
WithFiles(A) ==
    /\ A
    /\ ObserveFiles
    /\ UNCHANGED <<max_queue_size, refused, accepted, dequeued, runs, lastDone, logged, stops>>

\* The whole program.
Next ==
    \/ \E f \in Folders : Whole(AddWatchFolder(f))
    \/ Whole(StartWatching)
    \/ Whole(StopWatching)
    \/ Whole(StartWorkers)
    \/ Whole(StopWorkers)
    \/ Whole(StopWorkersReturn)
    \/ Whole(MainExit)
    \/ \E f \in Folders, found \in SUBSET Paths : Whole(ProcessExistingFiles(f, found))
    \/ Whole(ScanNext)
    \/ \E k \in Kinds, h \in 1..MaxHandlers, p \in Paths, valid \in BOOLEAN :
          Whole(DeliverEvent(k, h, p, valid))
    \/ Whole(HandleEvent)
    \/ \E p \in Producers : Whole(EnqueueFileCheck(p))
    \/ \E p \in Producers : Whole(EnqueueFilePut(p))
    \/ \E w \in Threads : Whole(WorkerLoop(w))
    \/ \E w \in Threads : Whole(WorkerDequeue(w))
    \/ \E w \in Threads, o \in Outcomes : Whole(WorkerProcess(w, o))
    \/ \E w \in Threads : Whole(WorkerMark(w))
    \/ \E w \in Threads : Whole(WorkerStatsLoad(w))
    \/ \E w \in Threads : Whole(WorkerStatsStore(w))
    \/ \E w \in Threads : Whole(WorkerFailedLoad(w))
    \/ \E w \in Threads : Whole(WorkerFailedStore(w))
    \/ \E w \in Threads, ok \in BOOLEAN : Whole(WorkerLog(w, ok))
    \/ \E d \in {30, 31} : Whole(Tick(d))

Spec == Init /\ [][Next]_vars

\* A sequential client of ProcessingQueue: enqueues, then dequeues until
\* the queue is empty.
PriorityNames == {"high", "medium", "low"}

QueueEnqueue(path, name) ==
    /\ dequeued = <<>>
    /\ Len(accepted) < MaxEnq
    /\ LET r == enqueue(queue, task_id, NewTask(path, name, now), priority_value(name))
       IN  /\ queue' = r.queue
           /\ task_id' = r.task_id
    /\ accepted' = Append(accepted, [item |-> NewTask(path, name, now),
                                     priority |-> priority_value(name),
                                     task_id |-> task_id + 1])
    /\ UNCHANGED <<lock, running, workers, stats, now, hvars, wvars, pvars>>
    /\ UNCHANGED <<max_queue_size, refused, fsevents, dequeued, runs, lastDone, logged, stops>>

QueueDequeue ==
    /\ queue # <<>>
    /\ queue' = dequeue(queue).queue
    /\ dequeued' = Append(dequeued, dequeue(queue).item)
    /\ UNCHANGED <<task_id, lock, running, workers, stats, now, hvars, wvars, pvars>>
    /\ UNCHANGED <<max_queue_size, refused, fsevents, accepted, runs, lastDone, logged, stops>>

NextQueue ==
    \/ \E p \in Audio, n \in PriorityNames : QueueEnqueue(p, n)
    \/ QueueDequeue

SpecQueue == Init /\ [][NextQueue]_vars

\* Ingestion: two producers (the observer running the handler of folder "in"
\* on events for valid audio files, a scan by the main thread) and the first
\* worker of one start_workers, on the queue; the clock stands still and the
\* log directory exists. With the history of the process_file calls.
NextIngest ==
    \/ WithRuns(AddWatchFolder("in") /\ hs = <<>>)
    \/ WithRuns(StartWatching)
    \/ WithRuns(StartWorkers /\ workers = 0)
    \/ \E found \in SUBSET Audio : WithRuns(ProcessExistingFiles("in", found))
    \/ WithRuns(ScanNext)
    \/ \E k \in Kinds, p \in Audio : WithRuns(DeliverEvent(k, 1, p, TRUE))
    \/ WithRuns(HandleEvent)
    \/ \E p \in Producers : WithRuns(EnqueueFileCheck(p))
    \/ \E p \in Producers : WithRuns(EnqueueFilePut(p))
    \/ WithRuns(WorkerLoop(1))
    \/ WithRuns(WorkerDequeue(1))
    \/ \E o \in Outcomes : WithRuns(WorkerProcess(1, o))
    \/ WithRuns(WorkerMark(1))
    \/ WithRuns(WorkerRecord(1, TRUE))

SpecIngest == Init /\ [][NextIngest]_vars

\* The pool: both workers of one start_workers, fed by the two producers (a
\* scan that finds in/a.wav, events for in/sub/b.wav); processing may fail
\* and the log directory may be missing. With the history of the tasks
\* accepted and dequeued.
NextPool ==
    \/ WithLog(AddWatchFolder("in") /\ hs = <<>>)
    \/ WithLog(StartWatching)
    \/ WithLog(StartWorkers /\ workers = 0)
    \/ WithLog(ProcessExistingFiles("in", {"in/a.wav"}))
    \/ WithLog(ScanNext)
    \/ \E k \in Kinds : WithLog(DeliverEvent(k, 1, "in/sub/b.wav", TRUE))
    \/ WithLog(HandleEvent)
    \/ \E p \in Producers : WithLog(EnqueueFileCheck(p))
    \/ \E p \in Producers : WithLog(EnqueueFilePut(p))
    \/ \E w \in Threads : WithLog(WorkerLoop(w))
    \/ \E w \in Threads : WithLog(WorkerDequeue(w))
    \/ \E w \in Threads, o \in Outcomes : WithLog(WorkerProcess(w, o))
    \/ \E w \in Threads : WithLog(WorkerMark(w))
    \/ \E w \in Threads, ok \in BOOLEAN : WithLog(WorkerRecord(w, ok))

SpecPool == Init /\ [][NextPool]_vars

\* Debounce: the observer, the handlers of up to MaxHandlers add_watch_folder
\* calls for folder "in" (a later call replaces the folder's entry in
\* self.handlers; the earlier handler stays scheduled), events for in/a.wav,
\* the first worker and the clock. With the history of the last run of
\* process_file for a path.
NextDebounce ==
    \/ WithLastDone(AddWatchFolder("in"))
    \/ WithLastDone(StartWatching)
    \/ WithLastDone(StartWorkers /\ workers = 0)
    \/ \E k \in Kinds, h \in 1..MaxHandlers, valid \in BOOLEAN :
          WithLastDone(DeliverEvent(k, h, "in/a.wav", valid))
    \/ WithLastDone(HandleEvent)
    \/ WithLastDone(EnqueueFileCheck("observer"))
    \/ WithLastDone(EnqueueFilePut("observer"))
    \/ WithLastDone(WorkerLoop(1))
    \/ WithLastDone(WorkerDequeue(1))
    \/ \E o \in Outcomes : WithLastDone(WorkerProcess(1, o))
    \/ WithLastDone(WorkerMark(1))
    \/ WithLastDone(WorkerRecord(1, TRUE))
    \/ \E d \in {30, 31} : WithLastDone(Tick(d))

SpecDebounce == Init /\ [][NextDebounce]_vars

\* Outcomes: both workers of one start_workers on the tasks of scans of the
\* two audio files by the main thread, with each access of a worker to self.stats a step of its
\* own; processing may fail and the log directory may be missing. With the
\* history of the tasks accepted and dequeued and of the results passed to
\* _log_result.
NextStats ==
    \/ WithOutcomes(AddWatchFolder("in") /\ hs = <<>>)
    \/ WithOutcomes(StartWorkers /\ workers = 0)
    \/ WithOutcomes(ProcessExistingFiles("in", Audio))
    \/ WithOutcomes(ScanNext)
    \/ WithOutcomes(EnqueueFileCheck("main"))
    \/ WithOutcomes(EnqueueFilePut("main"))
    \/ \E w \in Threads : WithOutcomes(WorkerLoop(w))
    \/ \E w \in Threads : WithOutcomes(WorkerDequeue(w))
    \/ \E w \in Threads, o \in Outcomes : WithOutcomes(WorkerProcess(w, o))
    \/ \E w \in Threads : WithOutcomes(WorkerMark(w))
    \/ \E w \in Threads : WithOutcomes(WorkerStatsLoad(w))
    \/ \E w \in Threads : WithOutcomes(WorkerStatsStore(w))
    \/ \E w \in Threads : WithOutcomes(WorkerFailedLoad(w))
    \/ \E w \in Threads : WithOutcomes(WorkerFailedStore(w))
    \/ \E w \in Threads, ok \in BOOLEAN : WithOutcomes(WorkerLog(w, ok))

SpecStats == Init /\ [][NextStats]_vars

\* Shutdown: the main thread starts the workers, scans the two audio files,
\* calls stop_workers (any number of times) and returns from main(); both
\* workers; processing may fail, the log directory exists. With the history
\* of what stop_workers returned.
NextStop ==
    \/ WithStops(StartWorkers /\ workers = 0)
    \/ WithStops(ProcessExistingFiles("in", Audio))
    \/ WithStops(ScanNext)
    \/ WithStops(EnqueueFileCheck("main"))
    \/ WithStops(EnqueueFilePut("main"))
    \/ WithStops(StopWorkers)
    \/ WithStops(StopWorkersReturn)
    \/ WithStops(MainExit)
    \/ \E w \in Threads : WithStops(WorkerLoop(w))
    \/ \E w \in Threads : WithStops(WorkerDequeue(w))
    \/ \E w \in Threads, o \in Outcomes : WithStops(WorkerProcess(w, o))
    \/ \E w \in Threads : WithStops(WorkerMark(w))
    \/ \E w \in Threads : WithStops(WorkerRecord(w, TRUE))

SpecStop == Init /\ [][NextStop]_vars

\* Backlog: the configured max_queue_size is MaxQueueSize or one more; the
\* workers are started, then a scan puts in/a.wav into the queue at 'low'
\* and the observer delivers events for in/sub/b.wav; both workers; processing may fail and the log directory may
\* be missing. A call is started only while the tasks explored leave room
\* for it. The threads of the program are scheduled fairly: a step that a
\* worker or a producer can take is taken. With the history of the
\* process_file calls.
Calls == Cardinality({q \in Producers : ppc[q] # "idle"})

NextBacklog ==
    \/ WithRuns(AddWatchFolder("in") /\ hs = <<>>)
    \/ WithRuns(StartWorkers /\ workers = 0)
    \/ WithRuns(StartWatching /\ workers > 0)
    \/ WithRuns(ProcessExistingFiles("in", {"in/a.wav"}) /\ task_id + Calls < MaxTaskId)
    \/ WithRuns(ScanNext)
    \/ \E k \in Kinds :
          WithRuns(DeliverEvent(k, 1, "in/sub/b.wav", TRUE) /\ task_id + Calls < MaxTaskId)
    \/ WithRuns(HandleEvent)
    \/ \E p \in Producers : WithRuns(EnqueueFileCheck(p))
    \/ \E p \in Producers : WithRuns(EnqueueFilePut(p))
    \/ \E w \in Threads : WithRuns(WorkerLoop(w))
    \/ \E w \in Threads : WithRuns(WorkerDequeue(w))
    \/ \E w \in Threads, o \in Outcomes : WithRuns(WorkerProcess(w, o))
    \/ \E w \in Threads : WithRuns(WorkerMark(w))
    \/ \E w \in Threads, ok \in BOOLEAN : WithRuns(WorkerRecord(w, ok))

ThreadStep ==
    \/ WithRuns(ScanNext)
    \/ WithRuns(HandleEvent)
    \/ \E p \in Producers : WithRuns(EnqueueFileCheck(p))
    \/ \E p \in Producers : WithRuns(EnqueueFilePut(p))

WorkerStep(w) ==
    \/ WithRuns(WorkerLoop(w))
    \/ WithRuns(WorkerDequeue(w))
    \/ \E o \in Outcomes : WithRuns(WorkerProcess(w, o))
    \/ WithRuns(WorkerMark(w))
    \/ \E ok \in BOOLEAN : WithRuns(WorkerRecord(w, ok))

InitBacklog == \E cap \in 1..(MaxQueueSize + 1) : Construct(cap)

SpecBacklog ==
    /\ InitBacklog
    /\ [][NextBacklog]_vars
    /\ WF_vars(ThreadStep)
    /\ \A w \in Threads : WF_vars(WorkerStep(w))

\* Admission: the observer runs the handler of folder "in" on Created and
\* Modified events for the three files, valid or not (a zero-byte file, a
\* file validate_audio_file cannot read); the first worker; processing may
\* fail; the clock stands still and the log directory exists. With the
\* history of the calls refused for capacity.
NextAdmit ==
    \/ WithRefused(AddWatchFolder("in") /\ hs = <<>>)
    \/ WithRefused(StartWatching)
    \/ WithRefused(StartWorkers /\ workers = 0)
    \/ \E k \in Kinds, p \in Paths, valid \in BOOLEAN :
          WithRefused(DeliverEvent(k, 1, p, valid))
    \/ WithRefused(HandleEvent)
    \/ WithRefused(EnqueueFileCheck("observer"))
    \/ WithRefused(EnqueueFilePut("observer"))
    \/ WithRefused(WorkerLoop(1))
    \/ WithRefused(WorkerDequeue(1))
    \/ \E o \in Outcomes : WithRefused(WorkerProcess(1, o))
    \/ WithRefused(WorkerMark(1))
    \/ WithRefused(WorkerRecord(1, TRUE))

SpecAdmit == Init /\ [][NextAdmit]_vars

\* Locking: the two producers in enqueue_file with ProcessingQueue.enqueue
\* taken step by step (the lock, the increment, the put), and the first
\* worker; max_queue_size is MaxQueueSize or one more. A scan or an event is started
\* only while the tasks explored leave room for its calls. The producer
\* threads are scheduled fairly; nothing is assumed of the worker, which
\* may stop anywhere. With the history of the tasks accepted and dequeued.
Budget ==
    task_id + Len(scanleft)
      + Cardinality({q \in Producers :
                        ppc[q] \in {"handler", "enqueue_file", "put", "incr", "locked_put"}})

NextLock ==
    \/ WithLog(AddWatchFolder("in") /\ hs = <<>>)
    \/ WithLog(StartWatching)
    \/ WithLog(StartWorkers /\ workers = 0)
    \/ \E found \in SUBSET Audio :
          WithLog(ProcessExistingFiles("in", found)
                    /\ Budget + Cardinality(found) <= MaxTaskId)
    \/ WithLog(ScanNext)
    \/ \E k \in Kinds :
          WithLog(DeliverEvent(k, 1, "in/sub/b.wav", TRUE) /\ Budget < MaxTaskId)
    \/ WithLog(HandleEvent)
    \/ \E p \in Producers : WithLog(EnqueueFileCheck(p))
    \/ \E p \in Producers : WithLog(EnqueueAcquire(p))
    \/ \E p \in Producers : WithLog(EnqueueIncrement(p))
    \/ \E p \in Producers : WithLog(EnqueueLockedPut(p))
    \/ WithLog(WorkerLoop(1))
    \/ WithLog(WorkerDequeue(1))
    \/ \E o \in Outcomes : WithLog(WorkerProcess(1, o))
    \/ WithLog(WorkerMark(1))
    \/ WithLog(WorkerRecord(1, TRUE))

EnqueueStep(p) ==
    \/ WithLog(EnqueueFileCheck(p))
    \/ WithLog(EnqueueAcquire(p))
    \/ WithLog(EnqueueIncrement(p))
    \/ WithLog(EnqueueLockedPut(p))

SpecLock ==
    /\ InitBacklog
    /\ [][NextLock]_vars
    /\ \A p \in Producers : WF_vars(EnqueueStep(p))

\* Drain: the main thread starts the workers, scans the two audio files and
\* calls stop_workers (any number of times); both workers; processing may
\* fail and the log directory may be missing. A worker that is between
\* tasks is scheduled fairly: its test of self.running and its dequeue are
\* taken (the sleep of 0.5 s ends); nothing is assumed of how long
\* process_file takes. With the history of what stop_workers returned.
NextDrain ==
    \/ WithStops(StartWorkers /\ workers = 0)
    \/ WithStops(ProcessExistingFiles("in", Audio))
    \/ WithStops(ScanNext)
    \/ WithStops(EnqueueFileCheck("main"))
    \/ WithStops(EnqueueFilePut("main"))
    \/ WithStops(StopWorkers)
    \/ WithStops(StopWorkersReturn)
    \/ \E w \in Threads : WithStops(WorkerLoop(w))
    \/ \E w \in Threads : WithStops(WorkerDequeue(w))
    \/ \E w \in Threads, o \in Outcomes : WithStops(WorkerProcess(w, o))
    \/ \E w \in Threads : WithStops(WorkerMark(w))
    \/ \E w \in Threads, ok \in BOOLEAN : WithStops(WorkerRecord(w, ok))

IdleStep(w) ==
    \/ WithStops(WorkerLoop(w))
    \/ WithStops(WorkerDequeue(w))

SpecDrain ==
    /\ Init
    /\ [][NextDrain]_vars
    /\ \A w \in Threads : WF_vars(IdleStep(w))

\* The watched tree: folder "in" is watched recursively; in/a.wav arrives (a
\* Created event, before any task) and after that the observer reports only
\* the files that process_file itself has written under "in"; both workers;
\* processing may fail, the log directory exists. With the files written
\* and not yet reported.
NextTree ==
    \/ WithFiles(AddWatchFolder("in") /\ hs = <<>>)
    \/ WithFiles(StartWatching)
    \/ WithFiles(StartWorkers /\ workers = 0)
    \/ WithFiles(DeliverEvent("created", 1, "in/a.wav", TRUE) /\ task_id = 0)
    \/ \E p \in WrittenPaths : WithFiles(DeliverEvent("created", 1, p, TRUE) /\ p \in fsevents)
    \/ WithFiles(HandleEvent)
    \/ WithFiles(EnqueueFileCheck("observer"))
    \/ WithFiles(EnqueueFilePut("observer"))
    \/ \E w \in Threads : WithFiles(WorkerLoop(w))
    \/ \E w \in Threads : WithFiles(WorkerDequeue(w))
    \/ \E w \in Threads, o \in Outcomes : WithFiles(WorkerProcess(w, o))
    \/ \E w \in Threads : WithFiles(WorkerMark(w))
    \/ \E w \in Threads : WithFiles(WorkerRecord(w, TRUE))

SpecTree == Init /\ [][NextTree]_vars

\* Restart: the main thread calls start_workers and stop_workers in any
\* order (start_workers up to MaxStarts times) and scans the two audio
\* files; every worker thread started; processing may fail, the log
\* directory exists. With the history of what stop_workers returned.
NextRestart ==
    \/ WithStops(StartWorkers)
    \/ WithStops(ProcessExistingFiles("in", Audio))
    \/ WithStops(ScanNext)
    \/ WithStops(EnqueueFileCheck("main"))
    \/ WithStops(EnqueueFilePut("main"))
    \/ WithStops(StopWorkers)
    \/ WithStops(StopWorkersReturn)
    \/ \E w \in Threads : WithStops(WorkerLoop(w))
    \/ \E w \in Threads : WithStops(WorkerDequeue(w))
    \/ \E w \in Threads, o \in Outcomes : WithStops(WorkerProcess(w, o))
    \/ \E w \in Threads : WithStops(WorkerMark(w))
    \/ \E w \in Threads : WithStops(WorkerRecord(w, TRUE))

SpecRestart == Init /\ [][NextRestart]_vars

\* Service: the workers are started, then the main thread scans audio files
\* of folder "in", one task more than MaxTaskId in all (with max_workers
\* tasks every worker can have ended, and one more is left then); enqueue
\* step by step; both workers; processing may fail and the log directory
\* may be missing. self.running stays True. The main thread and the workers
\* are scheduled fairly, and process_file returns. With the history of the
\* process_file calls.
ServeTasks == MaxTaskId + 1

NextServe ==
    \/ WithRuns(StartWorkers /\ workers = 0)
    \/ \E found \in SUBSET Audio :
          WithRuns(ProcessExistingFiles("in", found)
                     /\ workers > 0
                     /\ Budget + Cardinality(found) <= ServeTasks)
    \/ WithRuns(ScanNext)
    \/ WithRuns(EnqueueFileCheck("main"))
    \/ WithRuns(EnqueueAcquire("main"))
    \/ WithRuns(EnqueueIncrement("main"))
    \/ WithRuns(EnqueueLockedPut("main"))
    \/ \E w \in Threads : WithRuns(WorkerLoop(w))
    \/ \E w \in Threads : WithRuns(WorkerDequeue(w))
    \/ \E w \in Threads, o \in Outcomes : WithRuns(WorkerProcess(w, o))
    \/ \E w \in Threads : WithRuns(WorkerMark(w))
    \/ \E w \in Threads, ok \in BOOLEAN : WithRuns(WorkerRecord(w, ok))

ScanStep ==
    \/ WithRuns(ScanNext)
    \/ WithRuns(EnqueueFileCheck("main"))
    \/ WithRuns(EnqueueAcquire("main"))
    \/ WithRuns(EnqueueIncrement("main"))
    \/ WithRuns(EnqueueLockedPut("main"))

SpecServe ==
    /\ Init
    /\ [][NextServe]_vars
    /\ WF_vars(ScanStep)
    /\ \A w \in Threads : WF_vars(WorkerStep(w))

\* Marking: the main thread adds the two watch folders (before or while a
\* task is processed), starts the workers and, with folder "in" added,
\* scans in/sub/b.wav; the first
\* worker, with the marking loop of process_file taken handler by handler;
\* processing may fail, the log directory exists; the clock advances. With
\* the history of the tasks accepted and dequeued and of the results passed
\* to _log_result.
NextMark ==
    \/ \E f \in Folders : WithOutcomes(AddWatchFolder(f) /\ handlers[f] = 0)
    \/ WithOutcomes(StartWorkers /\ workers = 0)
    \/ WithOutcomes(ProcessExistingFiles("in", {"in/sub/b.wav"}) /\ handlers["in"] # 0)
    \/ WithOutcomes(ScanNext)
    \/ WithOutcomes(EnqueueFileCheck("main"))
    \/ WithOutcomes(EnqueueFilePut("main"))
    \/ WithOutcomes(WorkerLoop(1))
    \/ WithOutcomes(WorkerDequeue(1))
    \/ \E o \in Outcomes : WithOutcomes(WorkerProcess(1, o))
    \/ WithOutcomes(WorkerMarkIter(1))
    \/ WithOutcomes(WorkerMarkNext(1))
    \/ WithOutcomes(WorkerMarkRaise(1))
    \/ WithOutcomes(WorkerRecord(1, TRUE))
    \/ \E d \in {30, 31} : WithOutcomes(Tick(d))

SpecMark == Init /\ [][NextMark]_vars

\* Resume: max_queue_size is MaxQueueSize + 1; the main thread calls
\* start_workers (twice at most) and stop_workers in any order and scans the
\* two audio files; every worker thread started; processing succeeds, the
\* log directory exists. The worker threads are scheduled fairly and
\* process_file returns. With the history of what stop_workers returned and
\* of the queue it left.
NextResume ==
    \/ WithStops(StartWorkers /\ workers < 2 * max_workers)
    \/ WithStops(ProcessExistingFiles("in", Audio))
    \/ WithStops(ScanNext)
    \/ WithStops(EnqueueFileCheck("main"))
    \/ WithStops(EnqueueFilePut("main"))
    \/ WithStops(StopWorkers)
    \/ WithStops(StopWorkersReturn)
    \/ \E w \in Threads : WithStops(WorkerLoop(w))
    \/ \E w \in Threads : WithStops(WorkerDequeue(w))
    \/ \E w \in Threads : WithStops(WorkerProcess(w, "ok"))
    \/ \E w \in Threads : WithStops(WorkerMark(w))
    \/ \E w \in Threads : WithStops(WorkerRecord(w, TRUE))

ResumeStep(w) ==
    \/ WithStops(WorkerLoop(w))
    \/ WithStops(WorkerDequeue(w))
    \/ WithStops(WorkerProcess(w, "ok"))
    \/ WithStops(WorkerMark(w))
    \/ WithStops(WorkerRecord(w, TRUE))

InitResume == Construct(MaxQueueSize + 1)

SpecResume ==
    /\ InitResume
    /\ [][NextResume]_vars
    /\ \A w \in Threads : WF_vars(ResumeStep(w))

\* Priority names: a client calls enqueue_file(file_path, priority) with
\* names in any case and with names priority_map does not have.
CallNames == {"high", "HIGH", "Medium", "low", "Low", "urgent"}

\* "def enqueue_file(self, file_path: Path, priority: str = 'medium')"
\* called by the main thread outside a scan.
CallEnqueueFile(path, name) ==
    /\ ppc["main"] = "idle"
    /\ ppc' = [ppc EXCEPT !["main"] = "enqueue_file"]
    /\ pcall' = [pcall EXCEPT !["main"] = [file_path |-> path, priority |-> name]]
    /\ pret' = [pret EXCEPT !["main"] = NoReturn]
    /\ UNCHANGED <<running, workers, stats, now, pevt, scanleft, qvars, hvars, wvars>>

\* The main thread's calls with every name, the call's two steps, and the
\* return to the caller (which has no file left to offer).
NextRank ==
    \/ \E p \in Audio, n \in CallNames : WithLog(CallEnqueueFile(p, n))
    \/ WithLog(EnqueueFileCheck("main"))
    \/ WithLog(EnqueueFilePut("main"))
    \/ WithLog(ScanNext)

SpecRank == InitResume /\ [][NextRank]_vars

\* ------------------------------------------------------------ properties
Range(seq) == {seq[i] : i \in 1..Len(seq)}
Count(seq, x) == Cardinality({i \in 1..Len(seq) : seq[i] = x})
Items(seq) == [i \in 1..Len(seq) |-> seq[i].item]

\* Stable sort of the accepted calls by priority: 0, then 1, then 2, each in
\* enqueue order.
StableSort(seq) ==
    SelectSeq(seq, LAMBDA e : e.priority = 0)
      \o SelectSeq(seq, LAMBDA e : e.priority = 1)
      \o SelectSeq(seq, LAMBDA e : e.priority = 2)

\* C1: enqueues of mixed priorities followed by dequeues until empty: the
\* items come out in the order of the stable sort of the enqueued items by
\* priority (lower value first, enqueue order within a priority).
C1_PriorityOrder ==
    /\ dequeued = SubSeq(Items(StableSort(accepted)), 1, Len(dequeued))
    /\ queue = <<>> => Len(dequeued) = Len(accepted)

C1_Witness ==
    /\ queue = <<>>
    /\ Len(dequeued) = 3
    /\ accepted[1].priority = 2 /\ accepted[2].priority = 0 /\ accepted[3].priority = 2
    /\ accepted[1].item # accepted[3].item

\* The step in which producer p runs enqueue_file's size check.
ChecksSize(p) == ppc[p] = "enqueue_file" /\ ppc'[p] # "enqueue_file"

\* C2: enqueue_file called when the queue size equals max_queue_size
\* returns False and leaves the queue as it is, whatever the priority.
C2_FullQueueRejects ==
    [][\A p \in Producers :
          (ChecksSize(p) /\ size(queue) = max_queue_size)
              => /\ pret'[p].value = "False"
                 /\ ppc'[p] = AfterCall(p)
                 /\ queue' = queue
                 /\ task_id' = task_id]_vars

\* A Created event's high-priority task was refused by a queue that is full
\* of a lower-priority task.
C2_Witness ==
    /\ pret["observer"].value = "False"
    /\ pret["observer"].of.kind = "created"
    /\ size(queue) = max_queue_size
    /\ \A i \in 1..Len(queue) : queue[i].priority > 0

\* C3: the queue never holds more than max_queue_size tasks, also with
\* concurrent producers.
C3_SizeBounded == size(queue) <= max_queue_size

\* A task for the path waits in the queue, is about to be put there, or is
\* being executed by a worker.
InFlight(path) ==
    \/ \E i \in 1..Len(queue) : queue[i].item.file_path = path
    \/ \E p \in Producers : ppc[p] = "put" /\ pcall[p].file_path = path
    \/ \E w \in Threads : wpc[w] \in {"process", "mark"} /\ wtask[w].file_path = path

\* The step in which the observer thread runs on_created / on_modified.
Handles == ppc["observer"] = "handler" /\ ppc'["observer"] # "handler"

Admitted(priority) ==
    /\ ppc'["observer"] = "enqueue_file"
    /\ pcall'["observer"].priority = priority

Skipped == ppc'["observer"] = "idle" /\ queue' = queue

\* C4: an event for a path that has a task queued or executing is rejected.
C4_InFlightRejected ==
    [][(Handles /\ InFlight(pevt.path)) => Skipped]_vars

\* C5: the events of one file arrival (none delivered after a run for the
\* path has ended) lead to at most one process_file call for the path.
C5_ExactlyOnce ==
    \A p \in Paths : runs[p].late \/ runs[p].execs <= 1

\* process_file has returned for the path, handler h was registered then,
\* and that was less than / more than the cooldown ago.
ProcessedBy(h, path) == lastDone[path].at >= 0 /\ h \in lastDone[path].by
WithinCooldown(path) == now - lastDone[path].at < Cooldown
PastCooldown(path)   == now - lastDone[path].at > Cooldown

\* C6: a Modified event for a path processed less than 60 s ago is rejected:
\* nothing is enqueued.
C6_DebounceRejects ==
    [][(/\ Handles
        /\ pevt.kind = "modified"
        /\ ProcessedBy(pevt.handler, pevt.path)
        /\ WithinCooldown(pevt.path)) => Skipped]_vars

\* C7: a Modified event for a valid path processed more than 60 s ago, with
\* no task for it in flight and room in the queue, is admitted at medium.
C7_CooledDownAdmitted ==
    [][(/\ Handles
        /\ pevt.kind = "modified"
        /\ pevt.valid
        /\ ProcessedBy(pevt.handler, pevt.path)
        /\ PastCooldown(pevt.path)
        /\ ~InFlight(pevt.path)
        /\ ~queue_full(queue)) => Admitted("medium")]_vars

\* C8: a Created event for a valid path with no task in flight is admitted
\* at high priority, cooldown or not.
C8_CreatedAdmitted ==
    [][(/\ Handles
        /\ pevt.kind = "created"
        /\ pevt.valid
        /\ ~InFlight(pevt.path)) => Admitted("high")]_vars

Live    == {w \in Threads : wpc[w] \notin Ended}
LogDead == {w \in Threads : wpc[w] = "dead"}

\* C9: a failing process_file call never ends a worker: the worker goes on
\* to record the outcome, and while the pool runs every worker is alive
\* except those that _log_result's own exception ended.
C9_FailureIsolation ==
    /\ [](running => Cardinality(Live) + Cardinality(LogDead) = max_workers)
    /\ [][\A w \in Threads :
            (wpc[w] \in {"process", "mark"} /\ wpc'[w] # wpc[w])
                => wpc'[w] \in {"mark", "stats"}]_vars

\* One task has failed, all workers are alive, and a worker has processed
\* another task with success.
C9_Witness ==
    /\ stats.failed_files = 1
    /\ Cardinality(Live) = max_workers
    /\ \E w \in Threads : wpc[w] = "stats" /\ wresult[w].success

\* C10: no task is lost or duplicated: the accepted tasks are those dequeued
\* plus those in the queue, counted with multiplicity, and each dequeued task
\* is held by one worker or was recorded once.
C10_NoLossNoDup ==
    /\ \A x \in Range(Items(accepted)) \cup Range(dequeued) \cup Range(Items(queue)) :
          Count(Items(accepted), x) = Count(dequeued, x) + Count(Items(queue), x)
    /\ Len(dequeued) = stats.processed_files
                         + Cardinality({w \in Threads : wtask[w] # NoTask})

\* Both workers hold a task while the producers are in enqueue_file calls.
C10_Witness ==
    /\ Len(dequeued) = 2
    /\ wtask[1] # NoTask /\ wtask[2] # NoTask
    /\ wtask[1] # wtask[2]

\* process_file's "except Exception" branch was taken: a step raised, as the
\* file operations do when the file has disappeared or the disk is full.
Transient(result) == result.errors = <<"exception">>

\* The step that ends worker w's iteration for the task it holds.
IterationEnds(w) ==
    /\ wtask[w] # NoTask
    /\ wpc[w] \notin Ended
    /\ wpc'[w] \in {"loop", "dead"}

\* C11: a task whose processing raised is, by the end of the iteration, in
\* the queue a second time when that was its first run, and is not enqueued
\* again when it was its second.
C11_RetryOnce ==
    [][\A w \in Threads :
          (IterationEnds(w) /\ Transient(wresult[w]))
              => IF Count(dequeued', wtask[w]) = 1
                 THEN Count(Items(accepted'), wtask[w]) = 2
                 ELSE accepted' = accepted]_vars

\* process_file returned at "Validation failed".
Invalid(result) == result.errors = <<"Validation failed">>

\* C12: a worker that holds the result of a validation failure puts nothing
\* into the queue; it counts the result as failed, passes it to _log_result
\* and drops the task.
C12_ValidationNotRetried ==
    [][\A w \in Threads :
          (Invalid(wresult[w]) /\ wpc'[w] # wpc[w])
              => /\ queue' = queue
                 /\ accepted' = accepted
                 /\ ~wresult[w].success
                 /\ wpc[w] = "stats_store" => wpc'[w] = "failed"
                 /\ wpc[w] = "failed_store" => LogCalledBy(w)
                 /\ wpc[w] = "log" => wtask'[w] = NoTask]_vars

\* A validation failure was counted and logged, its worker is back in the
\* loop, and the queue is empty.
C12_Witness ==
    /\ Len(logged) = 1
    /\ Invalid(logged[1])
    /\ stats.failed_files = 1
    /\ queue = <<>>
    /\ workers = max_workers
    /\ \A w \in 1..workers : wpc[w] \in {"loop", "dequeue"}

\* C13: when process_file returns for a path, with success or with a
\* failure, every registered handler has the return time as the path's
\* last-processed time.
C13_CompletionSetsCooldown ==
    [][\A w \in Threads :
          ReturnedBy(w)
              => \A h \in Registered :
                    hs'[h].last_processed[wtask[w].file_path] = now]_vars

\* C14: a worker thread ends only at "while self.running", with the flag
\* cleared and no task in hand: a task once dequeued is processed, counted
\* and logged before its worker ends.
C14_StopsBetweenIterations ==
    [][\A w \in Threads :
          (wpc[w] \notin Ended /\ wpc'[w] \in Ended)
              => /\ wpc[w] = "loop"
                 /\ ~running
                 /\ wtask[w] = NoTask]_vars

\* C15: what stop_workers returns tells a full drain from a partial one: no
\* two calls return the same value, one with every worker thread ended and
\* one with a worker still running.
C15_StopReportsDrain ==
    \A a, b \in stops : a.result = b.result => a.drained = b.drained

\* C16: while self.running is set, exactly max_workers worker threads are
\* in their loops: start_workers started that many and none has ended.
C16_WorkersKeepRunning ==
    running => Cardinality(Live) = max_workers

\* C17: whatever happens in _log_result, the worker goes back to
\* "while self.running".
C17_LogFailureContained ==
    [][\A w \in Threads :
          (wpc[w] = "log" /\ wpc'[w] # "log") => wpc'[w] = "loop"]_vars

\* Positions of a worker inside the statistics update.
InStats == {"stats", "stats_store", "failed", "failed_store"}

Failures(seq) == Cardinality({i \in 1..Len(seq) : ~seq[i].success})

\* C18: no increment is lost: whenever no worker is inside the statistics
\* update, processed_files is the number of results that went through it
\* and failed_files the number of failed ones among them.
C18_StatsAtomic ==
    (\A w \in Threads : wpc[w] \notin InStats)
        => /\ stats.processed_files = Len(logged)
           /\ stats.failed_files = Failures(logged)

\* C19: every dequeued task has exactly one result, passed once to
\* _log_result unless its worker still holds it, and once no worker holds a
\* task the statistics count each dequeued task once.
C19_OneOutcomePerTask ==
    /\ Len(dequeued) =
          Len(logged) + Cardinality({w \in Threads : wtask[w] # NoTask /\ wpc[w] # "log"})
    /\ (\A w \in Threads : wtask[w] = NoTask)
          => /\ stats.processed_files = Len(dequeued)
             /\ stats.failed_files = Failures(logged)

\* The observer is about to handle a Created event for a valid file that has
\* no task yet and was never processed, with the pool running.
FreshCreated(path) ==
    /\ running
    /\ ppc["observer"] = "handler"
    /\ pevt.kind = "created" /\ pevt.path = path /\ pevt.valid
    /\ ~InFlight(path)
    /\ runs[path].execs = 0

Processed(path) == runs[path].execs > 0

HighQueued(path) ==
    \E i \in 1..Len(queue) : queue[i].priority = 0 /\ queue[i].item.file_path = path

\* A dequeue never returns a task while one of higher priority is queued.
HighFirst ==
    \A w \in Threads :
        DequeuedBy(w)
            => \A i \in 1..Len(queue) :
                  priority_value(wtask'[w].priority) <= queue[i].priority

ScanOffers == ppc["main"] = "scan" /\ scanleft # <<>> /\ ppc'["main"] # "scan"
ScanPuts   == ppc["main"] = "put" /\ ppc'["main"] = "scan"

\* C21: process_existing_files calls enqueue_file at 'low' for every audio
\* file it found, in order, whatever the handlers hold about the path; the
\* task it puts has priority value 2; a call refused for capacity puts
\* nothing and the scan goes on with the next file.
C21_ScanEnqueuesLow ==
    [][/\ ScanOffers =>
            /\ pcall'["main"] = [file_path |-> Head(scanleft), priority |-> "low"]
            /\ scanleft' = Tail(scanleft)
       /\ ScanPuts =>
            queue' = Append(queue,
                        [priority |-> 2, task_id |-> task_id + 1,
                         item |-> NewTask(pcall["main"].file_path, "low", now)])
       /\ (ChecksSize("main") /\ queue_full(queue)) =>
            /\ queue' = queue
            /\ ppc'["main"] = "scan"
            /\ scanleft' = scanleft]_vars

\* The scan's call for the second file has been refused by a queue that
\* holds the scan's task for the first, and the scan is over.
C21_Witness ==
    /\ pret["main"].value = "False"
    /\ scanleft = <<>>
    /\ Len(queue) = 1
    /\ queue[1].priority = 2
    /\ queue[1].item.file_path = "in/a.wav"
    /\ queue[1].item.priority = "low"

\* C22: the handling of an event that the queue refuses for capacity leaves
\* the handlers' state as it was, so a later event for the same path is
\* decided as for a path never refused: by _should_process (and the cooldown)
\* on that state, and, admitted with room in the queue, its task is put.
C22_RefusalLeavesNoTrace ==
    [][/\ (Handles \/ RefusedTo("observer")) => hs' = hs
       /\ RefusedTo("observer") => queue' = queue /\ ppc'["observer"] = "idle"
       /\ (Handles /\ pevt.path \in refused) =>
             (Admitted(event_priority(pevt.kind))
                <=> admits(pevt.kind, hs[pevt.handler], pevt.path, pevt.valid, now))
       /\ (ChecksSize("observer") /\ pcall["observer"].file_path \in refused
             /\ ~queue_full(queue)) => ppc'["observer"] = "put"]_vars

\* An event for in/a.wav was refused for capacity; a later event for it has
\* been admitted and its task put.
C22_Witness ==
    /\ "in/a.wav" \in refused
    /\ pret["observer"].of.path = "in/a.wav"
    /\ pret["observer"].value = "True"
    /\ \E i \in 1..Len(queue) : queue[i].item.file_path = "in/a.wav"

\* The file of the event fails basic admission.
Inadmissible(e) == suffix(e.path) \notin supported_exts \/ ~e.valid

\* C23: an event for a file with an unsupported extension or a file that
\* validate_audio_file reports invalid (a zero-byte file among them) starts no
\* enqueue_file call and changes neither the queue nor the handlers' state.
C23_InadmissibleIgnored ==
    [][(Handles /\ Inadmissible(pevt)) =>
          /\ Skipped
          /\ pret'["observer"].value = "skipped"
          /\ pcall' = pcall
          /\ task_id' = task_id
          /\ hs' = hs]_vars

\* An event for a path that no handler has marked was skipped because the
\* file is not valid, with a task of another file in the queue.
C23_Witness ==
    /\ pret["observer"].value = "skipped"
    /\ Inadmissible(pret["observer"].of)
    /\ pret["observer"].of.path \notin hs[1].processed_files
    /\ queue # <<>>

\* The producer is inside enqueue_file.
InEnqueueFile(p) == ppc[p] \in {"enqueue_file", "put", "incr", "locked_put"}

\* C24: a call of enqueue_file returns True or False whatever the workers
\* do (no step of a worker is needed for it), and the queue's lock is held
\* only by a producer inside the with block, whose steps wait for nothing.
C24_EnqueueNeverBlocks ==
    /\ [](\A p \in Producers : lock = p => ppc[p] \in {"incr", "locked_put"})
    /\ \A p \in Producers :
          InEnqueueFile(p) ~> (~InEnqueueFile(p) /\ pret[p].value \in {"True", "False"})

\* The observer's call waits for the lock, which the main thread holds; no
\* task has been dequeued.
C24_Witness ==
    /\ lock = "main"
    /\ ppc["observer"] = "put"
    /\ workers > 0
    /\ dequeued = <<>>

ByPriority(tasks, v) == SelectSeq(tasks, LAMBDA t : priority_value(t.priority) = v)
IsPrefix(a, b) == Len(a) <= Len(b) /\ a = SubSeq(b, 1, Len(a))

\* C25: the i-th task to enter the queue carries task_id i, and the tasks of
\* one priority are dequeued in the order in which they entered.
C25_SequenceNumbers ==
    /\ \A i \in 1..Len(accepted) : accepted[i].task_id = i
    /\ \A i, j \in 1..Len(queue) : i < j => queue[i].task_id < queue[j].task_id
    /\ \A v \in 0..2 : IsPrefix(ByPriority(dequeued, v), ByPriority(Items(accepted), v))

\* Two tasks of one priority for two files, of which the one put first has
\* been dequeued and the other waits.
C25_Witness ==
    /\ Len(accepted) = 2
    /\ accepted[1].priority = accepted[2].priority
    /\ accepted[1].item.file_path # accepted[2].item.file_path
    /\ dequeued = <<accepted[1].item>>
    /\ Len(queue) = 1 /\ queue[1].task_id = 2

\* The worker is between tasks: at the test of self.running or at dequeue.
Idle(w) == wpc[w] \in {"loop", "dequeue"}

\* C26: dequeue on the empty queue returns None at once and removes nothing,
\* and the worker goes back to the test of self.running; once stop_workers
\* has cleared the flag, a worker that is between tasks exits (or has found
\* a task in the queue on its last dequeue and executes it).
C26_IdleWorkersExit ==
    /\ [][\A w \in Threads :
            (wpc[w] = "dequeue" /\ wpc'[w] # "dequeue" /\ queue = <<>>)
               => queue' = <<>> /\ wpc'[w] = "loop" /\ wtask'[w] = NoTask]_vars
    /\ \A w \in Threads :
          (~running /\ Idle(w)) ~> (wpc[w] = "exited" \/ wtask[w] # NoTask)

\* After stop_workers the first worker has exited while the second still
\* executes its task; a task is left in the queue.
C26_Witness ==
    /\ ~running
    /\ wpc[1] = "exited"
    /\ wpc[2] = "process"
    /\ queue # <<>>
    /\ \E s \in stops : ~s.drained

\* C27: a Created event for a file that process_file has written under the
\* watched folder (its output, its backup copy) is not admitted.
C27_OwnOutputIgnored ==
    [][(Handles /\ pevt.path \in WrittenPaths) => Skipped]_vars

\* The workers that execute a task.
Executing == {w \in Threads : wpc[w] \in {"process", "mark", "stats"}}

\* C28: whatever the calls of start_workers and stop_workers, at most
\* max_workers worker loops are alive, and at most max_workers tasks are
\* being processed.
C28_PoolBounded ==
    /\ Cardinality(Live) <= max_workers
    /\ Cardinality(Executing) <= max_workers

\* A task for the path waits in the queue.
Queued(path) == \E i \in 1..Len(queue) : queue[i].item.file_path = path

\* C29: while the pool is running, a task in the queue is eventually
\* dequeued, and a task a worker holds eventually gets its outcome (the
\* statistics and the log entry, after which the worker holds no task).
C29_AcceptedEventuallyDone ==
    /\ \A p \in Audio : (running /\ Queued(p)) ~> ~Queued(p)
    /\ \A w \in Threads : (wtask[w] # NoTask) ~> (wtask[w] = NoTask)

\* C30: failed_files never exceeds processed_files, and when no worker is
\* inside the statistics update processed_files is the number of tasks
\* completed.
C30_FailedWithinProcessed ==
    /\ stats.failed_files <= stats.processed_files
    /\ (\A w \in Threads : wpc[w] \notin InStats) => stats.processed_files = Len(logged)

\* C31: every result process_file has returned has success = True exactly
\* when its errors list is empty.
C31_SuccessIffNoErrors ==
    /\ \A w \in Threads :
          wpc[w] \in {"stats", "stats_store", "failed", "failed_store", "log"}
             => (wresult[w].success <=> wresult[w].errors = <<>>)
    /\ \A i \in 1..Len(logged) : logged[i].success <=> logged[i].errors = <<>>

\* A step of stop_workers: the flag and the joins.
StopStep == (ppc["main"] = "idle" /\ ppc'["main"] = "join") \/ StopReturns

C33_MarkedEverywhere ==
    [][\A w \in Threads :
          ReturnedBy(w) =>
             IF wresult'[w].success
             THEN \A h1, h2 \in Registered :
                     /\ wtask[w].file_path \in hs'[h1].processed_files
                     /\ hs'[h1].last_processed[wtask[w].file_path]
                           = hs'[h2].last_processed[wtask[w].file_path]
             ELSE hs' = hs]_vars

\* The rank the priority table gives each name a client passes.
NameRank ==
    [n \in CallNames |->
        CASE n \in {"high", "HIGH"} -> 0
          [] n \in {"Medium", "urgent"} -> 1
          [] n \in {"low", "Low"} -> 2]

\* C34: a put by enqueue_file appends an entry whose rank is 0, 1 or 2 for
\* high, medium or low in any case and 1 for any other name, carrying the
\* name as given, and returns True; a call is refused by a full queue only.
C34_PriorityRanks ==
    [][/\ PutBy("main") =>
             /\ Len(queue') = Len(queue) + 1
             /\ queue'[Len(queue')].priority = NameRank[pcall["main"].priority]
             /\ queue'[Len(queue')].item.file_path = pcall["main"].file_path
             /\ queue'[Len(queue')].item.priority = pcall["main"].priority
             /\ pret'["main"].value = "True"
       /\ RefusedTo("main") => queue_full(queue) /\ queue' = queue]_vars

C34_Witness ==
    /\ Len(queue) = 2
    /\ queue[1].item.priority = "HIGH" /\ queue[1].priority = 0
    /\ queue[2].item.priority = "urgent" /\ queue[2].priority = 1
    /\ ppc["main"] = "scan" /\ pret["main"].value = "True"

====
